---- MODULE Spec2Model ----
(***************************************************************************)
(* Model of the casbin redis watcher (src/watcher.go).                     *)
(*                                                                         *)
(* Two watcher slots, "P" and "S", are constructed by NewWatcher against   *)
(* one broker.  The broker and the client library are modelled by what     *)
(* the calls made in watcher.go do: a connection has a client side         *)
(* (cstate, pending), a server side (subs) and a queue of replies and       *)
(* pushed messages the client has not read yet (inq).                      *)
(*                                                                         *)
(* The callback field and the reply stream of the connection are shared    *)
(* between the owner's goroutine and the background goroutine without any  *)
(* synchronisation.  Both races are modelled as choices:                   *)
(*   - the background loop reads the callback field at any write that is   *)
(*     not older than the last one it observed (cbHist, cbView);           *)
(*   - the next reply on the connection goes to whichever of the two       *)
(*     readers (Update's Do, the loop's Receive) reads first.              *)
(***************************************************************************)
EXTENDS Integers, Sequences, FiniteSets, TLC

\* ------------------------------------------------------------------ bounds
MaxUpdates == 1      \* Update() calls in a run, all watchers together
MaxSets    == 1      \* SetUpdateCallback() calls in a run

\* ------------------------------------------------------------- vocabulary
Nil      == "nil"
NilFunc  == 0                        \* the nil func value; callbacks are 1, 2, ...
Watchers == {"P", "S"}
External == "X"                      \* a connection the caller dialed itself
Conns    == Watchers \cup {External}

Channels        == {"/casbin", "/custom"}
Protocols       == {"tcp", "unix"}
GoodAddr        == "127.0.0.1:6379"
BadAddr         == "invalid:0"
Addrs           == {GoodAddr, BadAddr}
DefaultChannel  == "/casbin"
DefaultProtocol == "tcp"
Marker          == "casbin rules updated"

VARIABLES
    brokerUp,      \* the broker process is running and reachable
    brokerPass,    \* the broker's required password, "" when it requires none
    cstate,        \* conn -> "none" (not dialed) | "open" | "failed" (the link
                   \*   broke: every call returns an I/O error) | "closed"
    subs,          \* conn -> channels the broker has subscribed the connection to
    inq,           \* conn -> replies and pushes sent by the broker, not yet read
    pending,       \* conn -> commands sent with Send whose reply was not received
    closeCount,    \* conn -> number of Close() calls made by the watcher code
    result,        \* watcher -> "none" | "ok" | "DialError" | "AuthError"
    options,       \* watcher -> resolved WatcherOptions (of the attempt, when
                   \*   construction failed)
    connection,    \* watcher -> its redis.Conn, or Nil
    cbHist,        \* watcher -> the values written to the callback field, in order
    cbView,        \* watcher -> index in cbHist of the write the loop last observed
    pc,            \* watcher -> position of the background goroutine
    subRet,        \* watcher -> what the last w.subscribe() returned
    upc,           \* watcher -> position of an Update() call in progress
    finalizerSet,  \* watcher -> runtime.SetFinalizer(w, finalizer) is in force
    dropped,       \* watcher -> the owner no longer references the watcher
    hist           \* history record, see Init

vars == <<brokerUp, brokerPass, cstate, subs, inq, pending,
          closeCount, result, options, connection, cbHist, cbView, pc, subRet,
          upc, finalizerSet, dropped, hist>>

brokerVars == <<brokerUp, brokerPass>>
connVars   == <<cstate, subs, inq, pending, closeCount>>

\* ------------------------------------------------- replies on a connection
Reply(t, ch, n, data) == [t |-> t, ch |-> ch, n |-> n, data |-> data]
IOErr == Reply("ioerr", Nil, 0, Nil)

\* The connection state the library calls read and change, as one value.
CW == [cstate |-> cstate, subs |-> subs, inq |-> inq, pending |-> pending]

\* ------------------------------------------------------------- the broker
\* SUBSCRIBE ch: the connection is subscribed and acknowledged with the
\* number of channels it is now subscribed to.
SrvSubscribe(cw, c, ch) ==
    LET s2 == cw.subs[c] \cup {ch}
    IN  [cw EXCEPT !.subs[c] = s2,
                   !.inq[c] = Append(@, Reply("subscribe", ch, Cardinality(s2), Nil))]

\* UNSUBSCRIBE without arguments: every channel of the connection is
\* dropped; the acknowledgement carries the remaining count, zero.  A
\* watcher's connection is subscribed to at most its one channel.
SrvUnsubscribe(cw, c) ==
    LET ch == IF cw.subs[c] = {} THEN Nil ELSE CHOOSE x \in cw.subs[c] : TRUE
    IN  [cw EXCEPT !.subs[c] = {},
                   !.inq[c] = Append(@, Reply("unsubscribe", ch, 0, Nil))]

\* The connections a PUBLISH on ch is delivered to.
Receivers(cw, ch) == {d \in Conns : ch \in cw.subs[d]}

\* PUBLISH ch data on connection c.  A connection that is subscribed to a
\* channel may only issue (un)subscribe commands: the broker answers
\* anything else with an error reply and publishes nothing.
PublishAccepted(cw, c) == cw.subs[c] = {}

SrvPublish(cw, c, ch, data) ==
    IF PublishAccepted(cw, c)
    THEN [cw EXCEPT !.inq = [d \in Conns |->
              IF d \in Receivers(cw, ch)
              THEN Append(cw.inq[d], Reply("message", ch, 0, data))
              ELSE IF d = c
                   THEN Append(cw.inq[d],
                               Reply("integer", Nil, Cardinality(Receivers(cw, ch)), Nil))
                   ELSE cw.inq[d]]]
    ELSE [cw EXCEPT !.inq[c] = Append(@, Reply("error", Nil, 0, Nil))]

\* AUTH pw is accepted when the broker requires a password and pw is it.
AuthAccepted(pw) == brokerPass # "" /\ pw = brokerPass

\* redis.Dial(protocol, addr): the broker listens on tcp at GoodAddr.
DialSucceeds(protocol, addr) ==
    brokerUp /\ protocol = "tcp" /\ addr = GoodAddr

\* ------------------------------------------------- the client connection
Writable(cw, c) == cw.cstate[c] = "open"

\* An I/O error is fatal to the connection: the library closes the socket
\* and every later call on the connection fails.
Fatal(cw, c) ==
    [cw EXCEPT !.cstate[c] = IF @ = "open" THEN "failed" ELSE @,
               !.subs[c] = {}, !.inq[c] = <<>>, !.pending[c] = 0]

\* Conn.Close()
CloseConn(cw, c) ==
    [cw EXCEPT !.cstate[c] = "closed", !.subs[c] = {}, !.inq[c] = <<>>,
               !.pending[c] = 0]

\* PubSubConn.Subscribe(ch): Send (one more pending reply) and Flush.
SubscribeCall(cw, c, ch) ==
    IF Writable(cw, c)
    THEN [ok |-> TRUE,
          cw |-> SrvSubscribe([cw EXCEPT !.pending[c] = @ + 1], c, ch)]
    ELSE [ok |-> FALSE, cw |-> Fatal(cw, c)]

\* PubSubConn.Unsubscribe(): Send and Flush; the caller ignores the error.
UnsubscribeCall(cw, c) ==
    IF Writable(cw, c)
    THEN SrvUnsubscribe([cw EXCEPT !.pending[c] = @ + 1], c)
    ELSE Fatal(cw, c)

\* A read returns at once, with an error, on a connection that is not open
\* and otherwise blocks until a reply is queued.
CanRead(cw, c) == cw.cstate[c] # "open" \/ cw.inq[c] # <<>>

ReadReply(cw, c) ==
    IF cw.cstate[c] = "open" /\ cw.inq[c] # <<>>
    THEN [r |-> Head(cw.inq[c]), cw |-> [cw EXCEPT !.inq[c] = Tail(@)]]
    ELSE [r |-> IOErr, cw |-> Fatal(cw, c)]

\* Conn.Receive(): one reply; the pending count is not taken below zero.
ConnReceive(cw, c) ==
    LET rd == ReadReply(cw, c)
    IN  IF rd.r.t = "ioerr" THEN rd
        ELSE [r |-> rd.r,
              cw |-> [rd.cw EXCEPT !.pending[c] = IF @ > 0 THEN @ - 1 ELSE 0]]

\* PubSubConn.Receive(): the Go type of the value it returns.
EventType(r) ==
    CASE r.t = "message"                     -> "Message"
      [] r.t \in {"subscribe", "unsubscribe"} -> "Subscription"
      [] OTHER                               -> "error"

\* ---------------------------------------------------------------- options
\* The option setters (Channel, Protocol, Password, WithRedisConnection) and
\* the WatcherOptions record live in the options file of the package.  A
\* call passes at most one setter per field here.
Passwords == IF brokerPass = "" THEN {"", "wrong"} ELSE {brokerPass, "wrong"}

SetterSet ==
    [f : {"Channel"}, v : Channels] \cup [f : {"Protocol"}, v : Protocols]
    \cup [f : {"Password"}, v : Passwords] \cup [f : {"Connection"}, v : {External}]

SetterLists ==
    {ss \in SUBSET SetterSet : \A a, b \in ss : a.f = b.f => a = b}

\* The calls that set at most the channel.
ChannelSetterLists ==
    {{}} \cup {{[f |-> "Channel", v |-> ch]} : ch \in Channels}

DefaultOptions ==
    [Channel |-> DefaultChannel, Protocol |-> DefaultProtocol,
     Password |-> "", Connection |-> Nil]

Field(o, ss, f) ==
    IF \E s \in ss : s.f = f THEN (CHOOSE s \in ss : s.f = f).v ELSE o[f]

ApplySetters(o, ss) ==
    [Channel |-> Field(o, ss, "Channel"), Protocol |-> Field(o, ss, "Protocol"),
     Password |-> Field(o, ss, "Password"), Connection |-> Field(o, ss, "Connection")]

\* ------------------------------------------------------------------- Init
\* No Update() call in progress.  need: replies Do still has to read; err: an
\* error reply was among those read; pub: the broker ran the PUBLISH.
UpdateIdle == [need |-> 0, err |-> FALSE, pub |-> FALSE]

\* What the loop did with a message: the callback field as it read it (the
\* function it invoked, unless nil), the argument and the message's channel.
NoCall == [fn |-> NilFunc, data |-> Nil, ch |-> Nil]

\* A command the loop issued in its current call of w.subscribe() and
\* whether it could be written to the connection.
Cmd(name, ok) == [cmd |-> name, ok |-> ok]

InitState ==
    /\ brokerUp = TRUE
    /\ cstate = [c \in Conns |-> IF c = External THEN "open" ELSE "none"]
    /\ subs = [c \in Conns |-> {}]
    /\ inq = [c \in Conns |-> <<>>]
    /\ pending = [c \in Conns |-> 0]
    /\ closeCount = [c \in Conns |-> 0]
    /\ result = [w \in Watchers |-> "none"]
    /\ options = [w \in Watchers |-> DefaultOptions]
    /\ connection = [w \in Watchers |-> Nil]
    /\ cbHist = [w \in Watchers |-> <<NilFunc>>]
    /\ cbView = [w \in Watchers |-> 1]
    /\ pc = [w \in Watchers |-> "NotStarted"]
    /\ subRet = [w \in Watchers |-> "none"]
    /\ upc = [w \in Watchers |-> UpdateIdle]
    /\ finalizerSet = [w \in Watchers |-> FALSE]
    /\ dropped = [w \in Watchers |-> FALSE]
    /\ hist = [nrecv    |-> [w \in Watchers |-> 0],      \* messages the loop received
               ncalls   |-> [w \in Watchers |-> 0],      \* callback invocations
               last     |-> [w \in Watchers |-> NoCall], \* the latest message handled
               owed     |-> [w \in Watchers |-> 0],      \* see Owes
               updCalls |-> [w \in Watchers |-> 0],      \* Update() calls made
               updRes   |-> [w \in Watchers |-> "none"], \* result of the last one
               dials    |-> [w \in Watchers |-> 0],      \* redis.Dial calls
               auths    |-> [w \in Watchers |-> 0],      \* AUTH commands issued
               loops    |-> [w \in Watchers |-> 0],      \* goroutines started
               subTried |-> [w \in Watchers |-> FALSE],  \* a SUBSCRIBE was issued
               sets     |-> 0,                           \* SetUpdateCallback calls
               setRes   |-> "none",                      \* what the last one returned
               setBroken |-> FALSE,                      \* ... on a broken connection
               cmds     |-> [w \in Watchers |-> <<>>],   \* see Cmd
               swept    |-> {}]                          \* dropped before a collection

\* The broker of the publish/subscribe runs requires no password.
Init == InitState /\ brokerPass = ""

\* The broker of the construction and destruction runs may require one.
LifecycleInit == InitState /\ brokerPass \in {"", "secret"}

SetConn(cw) ==
    /\ cstate' = cw.cstate
    /\ subs' = cw.subs
    /\ inq' = cw.inq
    /\ pending' = cw.pending

\* ------------------------------------------------------------ construction
LeavesOpen(cw, c) == cw

\* c.Close() after a rejected AUTH (line 92).
AfterAuthError(cw, c) == CloseConn(cw, c)

AlwaysDials(o) == FALSE

\* if w.options.Connection != nil  (line 79)
Adopts(o) == o.Connection # Nil

\* Watcher.connect(addr) for watcher slot w with resolved options o.
connect(cw, w, o, addr) ==
    IF Adopts(o)
    THEN [err |-> Nil, conn |-> o.Connection, cw |-> cw, dialed |-> 0,
          authed |-> 0, closed |-> 0]
    ELSE IF ~DialSucceeds(o.Protocol, addr)
    THEN [err |-> "DialError", conn |-> Nil, cw |-> cw, dialed |-> 1,
          authed |-> 0, closed |-> 0]
    ELSE LET c  == w
             c1 == [cw EXCEPT !.cstate[c] = "open"]
         IN  IF o.Password # "" /\ ~AuthAccepted(o.Password)
             THEN [err |-> "AuthError", conn |-> Nil, cw |-> AfterAuthError(c1, c),
                   dialed |-> 1, authed |-> 1, closed |-> 1]
             ELSE [err |-> Nil, conn |-> c, cw |-> c1, dialed |-> 1,
                   authed |-> IF o.Password # "" THEN 1 ELSE 0, closed |-> 0]

ReturnsOnAuthErrorOnly(err) == err = "AuthError"

\* if err := w.connect(addr); err != nil { return nil, err }  (lines 42-44)
ReturnsEarly(err) == err # Nil

\* The caller hands its connection to one watcher only.
MaySupply(o) ==
    o.Connection # Nil => \A v \in Watchers : connection[v] # o.Connection

NewWatcher(w, addr, setters) ==
    LET o == ApplySetters(DefaultOptions, setters)
        r == connect(CW, w, o, addr)
    IN  /\ result[w] = "none"
        /\ MaySupply(o)
        /\ SetConn(r.cw)
        /\ closeCount' = IF r.closed = 1
                         THEN [closeCount EXCEPT ![w] = @ + 1] ELSE closeCount
        /\ result' = [result EXCEPT ![w] = IF r.err = Nil THEN "ok" ELSE r.err]
        /\ options' = [options EXCEPT ![w] = o]
        /\ IF ReturnsEarly(r.err)
           THEN /\ UNCHANGED <<connection, pc, finalizerSet>>
                /\ hist' = [hist EXCEPT !.dials[w] = @ + r.dialed,
                                        !.auths[w] = @ + r.authed]
           ELSE /\ connection' = [connection EXCEPT ![w] = r.conn]
                /\ finalizerSet' = [finalizerSet EXCEPT ![w] = TRUE]
                /\ pc' = [pc EXCEPT ![w] = "Idle"]
                /\ hist' = [hist EXCEPT !.dials[w] = @ + r.dialed,
                                        !.auths[w] = @ + r.authed,
                                        !.loops[w] = @ + 1]
        /\ UNCHANGED <<brokerVars, cbHist, cbView, subRet, upc, dropped>>

\* -------------------------------------------------------- owner operations
Owned(w) == result[w] = "ok" /\ ~dropped[w]

\* SetUpdateCallback: w.callback = callback; return nil.
NewCallback == hist.sets + 1

FailsWhenBroken(w) == IF cstate[connection[w]] = "open" THEN "ok" ELSE "err"

\* return nil  (line 65)
SetResult(w) == "ok"

SetUpdateCallback(w, f) ==
    /\ Owned(w)
    /\ hist.sets < MaxSets
    /\ cbHist' = [cbHist EXCEPT ![w] = Append(@, f)]
    /\ hist' = [hist EXCEPT !.sets = @ + 1,
                            !.setRes = SetResult(w),
                            !.setBroken = cstate[connection[w]] # "open"]
    /\ UNCHANGED <<brokerVars, connVars, result, options, connection, cbView,
                   pc, subRet, upc, finalizerSet, dropped>>

\* The channel and payload Update() publishes (line 71).
PublishChannel(w) == options[w].Channel
PublishPayload == Marker

\* The subscribers an Update() call by p has to reach: the other watchers
\* configured with p's channel whose loop is receiving, subscribed at the
\* broker, with a callback registered.
Ready(s) ==
    /\ result[s] = "ok"
    /\ pc[s] = "Receiving"
    /\ options[s].Channel \in subs[connection[s]]
    /\ cbHist[s][Len(cbHist[s])] # NilFunc

Owes(p, s) == s # p /\ Ready(s) /\ options[s].Channel = options[p].Channel

Owed(p) == [s \in Watchers |-> IF Owes(p, s) THEN hist.owed[s] + 1 ELSE hist.owed[s]]

\* Update(), first half: Conn.Do takes over the pending count, writes the
\* PUBLISH command and flushes.  A write error returns at once.
UpdateCall(w) ==
    LET c == connection[w]
    IN  /\ Owned(w)
        /\ upc[w].need = 0
        /\ hist.updCalls["P"] + hist.updCalls["S"] < MaxUpdates
        /\ IF Writable(CW, c)
           THEN /\ SetConn(SrvPublish([CW EXCEPT !.pending[c] = 0], c,
                                      PublishChannel(w), PublishPayload))
                /\ upc' = [upc EXCEPT ![w] = [need |-> pending[c] + 1, err |-> FALSE,
                                              pub |-> PublishAccepted(CW, c)]]
                /\ hist' = [hist EXCEPT !.updCalls[w] = @ + 1,
                                        !.updRes[w] = "none",
                                        !.owed = Owed(w)]
           ELSE /\ SetConn(Fatal(CW, c))
                /\ upc' = upc
                /\ hist' = [hist EXCEPT !.updCalls[w] = @ + 1,
                                        !.updRes[w] = "err",
                                        !.owed = Owed(w)]
        /\ UNCHANGED <<brokerVars, closeCount, result, options, connection,
                       cbHist, cbView, pc, subRet, finalizerSet, dropped>>

\* The error Do returns after reading its replies: the first error reply.
DoResult(err) == IF err THEN "err" ELSE "ok"

\* Update(), second half: Conn.Do reads one reply for every pending command
\* and one for its own; it reads from the connection the background loop
\* reads from.
UpdateRead(w) ==
    LET c  == connection[w]
        rd == ReadReply(CW, c)
        e  == upc[w].err \/ rd.r.t = "error"
    IN  /\ upc[w].need > 0
        /\ CanRead(CW, c)
        /\ SetConn(rd.cw)
        /\ IF rd.r.t = "ioerr"
           THEN /\ upc' = [upc EXCEPT ![w] = UpdateIdle]
                /\ hist' = [hist EXCEPT !.updRes[w] = "err"]
           ELSE IF upc[w].need = 1
           THEN /\ upc' = [upc EXCEPT ![w] = UpdateIdle]
                /\ hist' = [hist EXCEPT !.updRes[w] = DoResult(e)]
           ELSE /\ upc' = [upc EXCEPT ![w] = [@ EXCEPT !.need = @ - 1, !.err = e]]
                /\ hist' = hist
        /\ UNCHANGED <<brokerVars, closeCount, result, options, connection,
                       cbHist, cbView, pc, subRet, finalizerSet, dropped>>

\* ------------------------------------------------------ background loop
ExitsOnError(err) == IF err = "err" THEN "Exited" ELSE "Idle"

\* for { err := w.subscribe(); if err != nil { log } }  (lines 50-55): the
\* loop's position after w.subscribe() has returned err.
LoopAfterReturn(err) == "Idle"

SubscribesDefault(w) == DefaultChannel

\* The channel the loop subscribes to (line 103).
SubscribeChannel(w) == options[w].Channel

NoDeferred(cw, c) == [cw |-> cw, cmds |-> <<>>]

\* defer psc.Unsubscribe()  (line 106): runs when w.subscribe() returns
\* from its receive loop; its error is dropped.
DeferredUnsubscribe(cw, c) ==
    [cw |-> UnsubscribeCall(cw, c), cmds |-> <<Cmd("UNSUBSCRIBE", Writable(cw, c))>>]

UnsubscribesAnyway(cw, c) == DeferredUnsubscribe(cw, c)

\* if err := psc.Subscribe(...); err != nil { return err }  (lines 103-105):
\* the return comes before the defer statement.
AfterSubscribeError(cw, c) == [cw |-> cw, cmds |-> <<>>]

Reconnects(w) == IF cstate[connection[w]] = "open" THEN connection[w] ELSE External

\* psc := redis.PubSubConn{Conn: w.connection}  (line 102): the connection
\* w.subscribe() works on.
LoopConnection(w) == connection[w]

\* w.subscribe() up to its first Receive: psc.Subscribe (lines 102-106).
LoopSubscribe(w) ==
    LET c == LoopConnection(w)
        s == SubscribeCall(CW, c, SubscribeChannel(w))
        e == AfterSubscribeError(s.cw, c)
    IN  /\ pc[w] = "Idle"
        /\ connection' = [connection EXCEPT ![w] = c]
        /\ SetConn(IF s.ok THEN s.cw ELSE e.cw)
        /\ pc' = [pc EXCEPT ![w] = IF s.ok THEN "Receiving" ELSE LoopAfterReturn("err")]
        /\ subRet' = [subRet EXCEPT ![w] = IF s.ok THEN @ ELSE "err"]
        /\ hist' = [hist EXCEPT !.subTried[w] = TRUE,
                                !.cmds[w] = <<Cmd("SUBSCRIBE", s.ok)>>
                                            \o (IF s.ok THEN <<>> ELSE e.cmds)]
        /\ UNCHANGED <<brokerVars, closeCount, result, options,
                       cbHist, cbView, upc, finalizerSet, dropped>>

NeverZero(r) == FALSE

\* if n.Count == 0  (line 117)
CountZero(r) == r.n = 0

DiscardsMessages(r, fn) ==
    CASE EventType(r) = "error"        -> "err"
      [] EventType(r) = "Message"      -> "skip"
      [] EventType(r) = "Subscription" -> IF CountZero(r) THEN "nil" ELSE "skip"

\* What the receive loop does with one event (lines 109-120): "err" and
\* "nil" leave w.subscribe() with that value, "call" invokes the callback,
\* "skip" goes on to the next Receive.  fn is the callback field as read.
OnEvent(r, fn) ==
    CASE EventType(r) = "error"        -> "err"
      [] EventType(r) = "Message"      -> IF fn # NilFunc THEN "call" ELSE "skip"
      [] EventType(r) = "Subscription" -> IF CountZero(r) THEN "nil" ELSE "skip"

\* case redis.Message: if w.callback != nil { w.callback(string(n.Data)) }
Handled(r, fn) == [fn |-> fn, data |-> r.data, ch |-> r.ch]

\* One psc.Receive() and its case; on return the deferred psc.Unsubscribe()
\* runs and the goroutine loops.  The read of w.callback is not ordered
\* with the writes of SetUpdateCallback: it yields the write the loop last
\* observed or any later one.
LoopReceive(w) ==
    LET c  == connection[w]
        rd == ConnReceive(CW, c)
    IN  /\ pc[w] = "Receiving"
        /\ CanRead(CW, c)
        /\ \E i \in cbView[w] .. Len(cbHist[w]) :
             LET fn  == cbHist[w][i]
                 act == OnEvent(rd.r, fn)
             IN  /\ cbView' = [cbView EXCEPT ![w] =
                                 IF EventType(rd.r) = "Message" THEN i ELSE @]
                 /\ EventType(rd.r) # "Message" => i = cbView[w]
                 /\ IF act \in {"err", "nil"}
                    THEN /\ SetConn(DeferredUnsubscribe(rd.cw, c).cw)
                         /\ pc' = [pc EXCEPT ![w] = LoopAfterReturn(act)]
                         /\ subRet' = [subRet EXCEPT ![w] = act]
                         /\ hist' = [hist EXCEPT !.cmds[w] =
                                        @ \o DeferredUnsubscribe(rd.cw, c).cmds]
                    ELSE /\ SetConn(rd.cw)
                         /\ UNCHANGED <<pc, subRet>>
                         /\ hist' = IF EventType(rd.r) = "Message"
                                    THEN [hist EXCEPT
                                            !.nrecv[w] = @ + 1,
                                            !.ncalls[w] = IF act = "call" THEN @ + 1 ELSE @,
                                            !.last[w] = Handled(rd.r, fn)]
                                    ELSE hist
        /\ UNCHANGED <<brokerVars, closeCount, result, options, connection,
                       cbHist, upc, finalizerSet, dropped>>

\* --------------------------------------------------------------- lifetime
\* The owner lets go of its reference to the watcher.
Drop(w) ==
    /\ Owned(w)
    /\ upc[w].need = 0
    /\ dropped' = [dropped EXCEPT ![w] = TRUE]
    /\ UNCHANGED <<brokerVars, connVars, result, options, connection, cbHist,
                   cbView, pc, subRet, upc, finalizerSet, hist>>

\* The goroutine started by NewWatcher captures w (lines 49-56).
LoopRunning(w) == pc[w] \notin {"NotStarted", "Exited"}

Unreachable(w) == dropped[w] /\ ~LoopRunning(w)

\* finalizer(w): w.connection.Close()  (lines 126-128)
Finalizable == {w \in Watchers : finalizerSet[w] /\ Unreachable(w)}

\* A garbage collection: the finalizer of every unreachable watcher runs.
GC ==
    /\ \E w \in Watchers : dropped[w] /\ w \notin hist.swept
    /\ hist' = [hist EXCEPT !.swept = {w \in Watchers : dropped[w]}]
    /\ finalizerSet' = [w \in Watchers |-> finalizerSet[w] /\ w \notin Finalizable]
    /\ cstate' = [c \in Conns |->
                    IF \E w \in Finalizable : connection[w] = c
                    THEN "closed" ELSE cstate[c]]
    /\ closeCount' = [c \in Conns |->
                    IF \E w \in Finalizable : connection[w] = c
                    THEN closeCount[c] + 1 ELSE closeCount[c]]
    /\ subs' = [c \in Conns |->
                    IF \E w \in Finalizable : connection[w] = c THEN {} ELSE subs[c]]
    /\ inq' = [c \in Conns |->
                    IF \E w \in Finalizable : connection[w] = c THEN <<>> ELSE inq[c]]
    /\ pending' = [c \in Conns |->
                    IF \E w \in Finalizable : connection[w] = c THEN 0 ELSE pending[c]]
    /\ UNCHANGED <<brokerVars, result, options, connection,
                   cbHist, cbView, pc, subRet, upc, dropped>>

\* ------------------------------------------------------------ environment
\* The broker becomes unreachable: every link breaks, what was in flight is
\* lost and the broker forgets its subscribers.
BrokerDown ==
    /\ brokerUp
    /\ brokerUp' = FALSE
    /\ cstate' = [c \in Conns |-> IF cstate[c] = "open" THEN "failed" ELSE cstate[c]]
    /\ subs' = [c \in Conns |-> {}]
    /\ inq' = [c \in Conns |-> <<>>]
    /\ pending' = [c \in Conns |-> 0]
    /\ UNCHANGED <<brokerPass, closeCount, result, options,
                   connection, cbHist, cbView, pc, subRet, upc, finalizerSet,
                   dropped, hist>>

\* The broker is reachable again; broken links stay broken.
BrokerUp ==
    /\ ~brokerUp
    /\ brokerUp' = TRUE
    /\ UNCHANGED <<brokerPass, connVars, result, options, connection,
                   cbHist, cbView, pc, subRet, upc, finalizerSet, dropped, hist>>

\* ---------------------------------------------------------- specification
\* Publish/subscribe runs: watchers dial the broker and are configured with
\* a channel; their owners register callbacks and publish updates; an
\* outage of the broker lasts to the end of the run.
Next ==
    \/ \E w \in Watchers, a \in Addrs, ss \in ChannelSetterLists : NewWatcher(w, a, ss)
    \/ \E w \in Watchers : SetUpdateCallback(w, NewCallback)
    \/ \E w \in Watchers : UpdateCall(w)
    \/ \E w \in Watchers : UpdateRead(w)
    \/ \E w \in Watchers : LoopSubscribe(w)
    \/ \E w \in Watchers : LoopReceive(w)
    \/ BrokerDown

Spec == Init /\ [][Next]_vars

\* The loops are goroutines and Update() runs on its caller's thread: one
\* that can take a step eventually takes it.
FairSpec ==
    Spec /\ \A w \in Watchers :
        WF_vars(LoopSubscribe(w)) /\ WF_vars(LoopReceive(w)) /\ WF_vars(UpdateRead(w))

\* Construction and destruction runs: watchers are constructed with every
\* combination of options, run their loops, and are let go by their owners.
LifecycleNext ==
    \/ \E w \in Watchers, a \in Addrs, ss \in SetterLists : NewWatcher(w, a, ss)
    \/ \E w \in Watchers : LoopSubscribe(w)
    \/ \E w \in Watchers : LoopReceive(w)
    \/ \E w \in Watchers : Drop(w)
    \/ GC
    \/ BrokerDown
    \/ BrokerUp

LifecycleSpec == LifecycleInit /\ [][LifecycleNext]_vars

\* The loops are goroutines: one that can take a step eventually takes it.
LifecycleFairSpec ==
    LifecycleSpec /\ \A w \in Watchers :
        WF_vars(LoopSubscribe(w)) /\ WF_vars(LoopReceive(w))

\* ------------------------------------------------------------------ claims
Started(w) == result[w] = "ok"

\* The loop of w is in its receive loop and the broker has its connection
\* subscribed to its channel.
Subscribed(w) ==
    Started(w) /\ pc[w] = "Receiving" /\ options[w].Channel \in subs[connection[w]]

MessageQueued(w) ==
    \E i \in 1 .. Len(inq[connection[w]]) : inq[connection[w]][i].t = "message"

\* C1: for a publisher p and a subscriber s on one channel and a broker that
\* has stayed reachable, once nothing is in flight to s, s's callback has
\* been invoked once for each Update() call p made (at least for each call
\* made while s was subscribed with a callback registered, at most once per
\* call), and its argument was the marker payload.
C1_ExactlyOncePerUpdate ==
    \A p, s \in Watchers :
        (/\ p # s /\ Started(p) /\ Started(s)
         /\ options[p].Channel = options[s].Channel
         /\ brokerUp
         /\ ~MessageQueued(s))
        => /\ hist.owed[s] <= hist.ncalls[s]
           /\ hist.ncalls[s] <= hist.updCalls[p]
           /\ (hist.ncalls[s] > 0 => hist.last[s].data = Marker)

\* C2: channel isolation: every message queued for a watcher's connection and
\* every message its loop has handled was published on the watcher's own
\* channel.
C2_ChannelIsolation ==
    \A w \in Watchers : Started(w) =>
        /\ hist.nrecv[w] > 0 => hist.last[w].ch = options[w].Channel
        /\ \A i \in 1 .. Len(inq[connection[w]]) :
              inq[connection[w]][i].t = "message"
              => inq[connection[w]][i].ch = options[w].Channel

\* An Update() on one channel has been run by the broker while a watcher of
\* the other channel was subscribed; that watcher received nothing.
C2_Witness ==
    \E p, s \in Watchers :
        /\ Started(p) /\ Subscribed(s)
        /\ options[p].Channel # options[s].Channel
        /\ upc[p].pub
        /\ hist.nrecv[s] = 0 /\ ~MessageQueued(s)

\* C3: recovery after an outage: a loop that was receiving when the broker
\* became unreachable gets back to receiving, subscribed to its channel, once
\* the broker stays reachable.
OutageWhileReceiving(w) ==
    pc[w] = "Receiving" /\ cstate[connection[w]] = "failed"

C3_RecoversAfterOutage ==
    \A w \in Watchers :
        (<>[]brokerUp) => (OutageWhileReceiving(w) ~> Subscribed(w))

\* C4: a construction whose dial failed returns no watcher: no connection,
\* no finalizer, no loop and no SUBSCRIBE.
C4_DialFailureStartsNothing ==
    \A w \in Watchers : result[w] = "DialError" =>
        /\ connection[w] = Nil /\ cstate[w] = "none"
        /\ ~finalizerSet[w]
        /\ pc[w] = "NotStarted" /\ hist.loops[w] = 0
        /\ ~hist.subTried[w]

C4_Witness ==
    \E w \in Watchers :
        result[w] = "DialError" /\ hist.dials[w] = 1 /\ options[w].Connection = Nil

\* C5: a construction whose AUTH was rejected fails, has closed the
\* connection it dialed, and has started no loop.
C5_AuthFailureClosesConnection ==
    \A w \in Watchers : result[w] = "AuthError" =>
        /\ options[w].Password # ""
        /\ cstate[w] = "closed" /\ closeCount[w] = 1
        /\ connection[w] = Nil /\ ~finalizerSet[w]
        /\ pc[w] = "NotStarted" /\ hist.loops[w] = 0 /\ ~hist.subTried[w]

C5_Witness ==
    \E w \in Watchers :
        result[w] = "AuthError" /\ hist.dials[w] = 1 /\ hist.auths[w] = 1

\* C6: an Update() on a connection that is not open returns an error without
\* reading; an Update() that returns success had its PUBLISH run by the
\* broker; and nothing is published while Update() reads its replies.
C6_UpdateReportsFailure ==
    [][\A w \in Watchers :
        /\ (hist'.updCalls[w] = hist.updCalls[w] + 1 /\ cstate[connection[w]] # "open")
           => (hist'.updRes[w] = "err" /\ upc'[w].need = 0)
        /\ (upc[w].need > 0 /\ upc'[w].need = 0 /\ hist'.updRes[w] = "ok")
           => upc[w].pub
        /\ (upc[w].need > 0 /\ upc'[w] # upc[w])
           => \A c \in Conns : Len(inq'[c]) <= Len(inq[c])
      ]_vars

\* C7: a message the loop receives is handled with the callback registered
\* last: that function is invoked, and no other.
C7_LastWriterWins ==
    [][\A w \in Watchers :
        hist'.nrecv[w] = hist.nrecv[w] + 1
        => hist'.last[w].fn = cbHist[w][Len(cbHist[w])]
      ]_vars

\* C8: a watcher that was constructed has had exactly one loop started and
\* that loop is running, whatever its subscribe attempts returned; a
\* construction that failed has none.
C8_OneLoopForever ==
    \A w \in Watchers :
        /\ Started(w) => hist.loops[w] = 1 /\ pc[w] \in {"Idle", "Receiving"}
        /\ ~Started(w) => hist.loops[w] = 0 /\ pc[w] = "NotStarted"

\* A subscribe attempt returned an error and the same loop is receiving again.
C8_Witness ==
    \E w \in Watchers : subRet[w] = "err" /\ Subscribed(w) /\ hist.loops[w] = 1

\* C9: once the owner has let go of a watcher and a garbage collection has
\* run, the watcher's connection has been closed, exactly once; no
\* connection is closed twice.
C9_ClosedExactlyOnce ==
    /\ \A w \in hist.swept : closeCount[connection[w]] = 1
    /\ \A c \in Conns : closeCount[c] <= 1

\* C10: a construction that is given a connection succeeds, whatever the
\* address, password and protocol; the watcher's connection is the one
\* given, nothing was dialed, no AUTH was issued, and the loop is running.
C10_AdoptsSuppliedConnection ==
    \A w \in Watchers : (result[w] # "none" /\ options[w].Connection # Nil) =>
        /\ result[w] = "ok"
        /\ connection[w] = options[w].Connection
        /\ hist.dials[w] = 0 /\ hist.auths[w] = 0
        /\ hist.loops[w] = 1 /\ pc[w] \in {"Idle", "Receiving"}

C10_Witness ==
    \E w \in Watchers :
        /\ result[w] = "ok" /\ connection[w] = External
        /\ options[w].Password # "" /\ options[w].Protocol = "unix"
        /\ Subscribed(w)

\* ------------------------------------------------ steps, as seen in two states
\* The step is the first half of an Update() call by w.
UpdateStep(w) == hist.updCalls'[w] = hist.updCalls[w] + 1

\* The step is Update() of w reading one reply.
UpdateReadStep(w) == upc[w].need > 0 /\ upc'[w] # upc[w]

\* The step is w's loop handling the event of one psc.Receive().
LoopStep(w) ==
    /\ pc[w] = "Receiving"
    /\ upc' = upc /\ brokerUp' = brokerUp
    /\ inq'[connection[w]] # inq[connection[w]] \/ pc'[w] # pc[w]

\* The value a read of w's connection returns in the current state.
NextEvent(w) ==
    IF cstate[connection[w]] = "open" /\ inq[connection[w]] # <<>>
    THEN Head(inq[connection[w]]) ELSE IOErr

Messages(q) == {i \in 1 .. Len(q) : q[i].t = "message"}

\* C11: an Update() call by w on a working connection hands the broker a
\* notification for every other watcher subscribed to w's channel, and none
\* for w itself.
C11_UpdateReachesOthersOnly ==
    [][\A w \in Watchers :
         (UpdateStep(w) /\ Writable(CW, connection[w])) =>
            /\ \A s \in Watchers \ {w} :
                  (Subscribed(s) /\ options[s].Channel = options[w].Channel) =>
                     inq'[connection[s]] =
                        Append(inq[connection[s]],
                               Reply("message", options[w].Channel, 0, Marker))
            /\ Cardinality(Messages(inq'[connection[w]]))
                  = Cardinality(Messages(inq[connection[w]]))]_vars

\* C12: an error event in the receive loop ends w.subscribe() with the
\* error, without a callback invocation and with exactly one UNSUBSCRIBE
\* issued after the SUBSCRIBE of that attempt (whether or not it could be
\* written); the loop is back at Idle, so whenever it is about to issue a
\* SUBSCRIBE after an attempt that reached the receive loop, the UNSUBSCRIBE
\* of that attempt has been issued.
C12_ErrorEventUnsubscribesOnce ==
    [][\A w \in Watchers :
         /\ (LoopStep(w) /\ EventType(NextEvent(w)) = "error") =>
               /\ pc'[w] = "Idle" /\ subRet'[w] = "err"
               /\ hist.ncalls'[w] = hist.ncalls[w]
               /\ hist.nrecv'[w] = hist.nrecv[w]
               /\ Len(hist.cmds'[w]) = 2
               /\ hist.cmds'[w][1].cmd = "SUBSCRIBE"
               /\ hist.cmds'[w][2].cmd = "UNSUBSCRIBE"
         /\ (pc[w] = "Idle" /\ hist.cmds[w] # <<>> /\ hist.cmds[w][1].ok) =>
               hist.cmds[w][Len(hist.cmds[w])].cmd = "UNSUBSCRIBE"]_vars

\* A receive failed on a broken connection; the UNSUBSCRIBE that followed
\* failed too and the loop is about to subscribe again.
C12_Witness ==
    \E w \in Watchers :
        /\ pc[w] = "Idle" /\ subRet[w] = "err"
        /\ hist.cmds[w] = <<Cmd("SUBSCRIBE", TRUE), Cmd("UNSUBSCRIBE", FALSE)>>

\* The step is w's loop issuing a SUBSCRIBE that cannot be written.
SubscribeFails(w) ==
    /\ pc[w] = "Idle" /\ ~Writable(CW, connection[w])
    /\ brokerUp' = brokerUp /\ upc' = upc
    /\ hist.cmds'[w] # hist.cmds[w] \/ subRet'[w] # subRet[w]

\* C13: a failed SUBSCRIBE ends w.subscribe() with the error: no UNSUBSCRIBE
\* is issued and no callback invoked for the attempt, no caller sees the
\* error, and the loop is at once at Idle again, whatever the number of
\* failures before.
C13_SubscribeFailureRetries ==
    [][\A w \in Watchers :
         SubscribeFails(w) =>
            /\ pc'[w] = "Idle" /\ subRet'[w] = "err"
            /\ hist.cmds'[w] = <<Cmd("SUBSCRIBE", FALSE)>>
            /\ hist.ncalls'[w] = hist.ncalls[w]
            /\ hist.updRes' = hist.updRes /\ result' = result]_vars

\* A SUBSCRIBE has failed and the loop is about to issue the next one.
C13_Witness ==
    \E w \in Watchers :
        /\ pc[w] = "Idle" /\ subRet[w] = "err"
        /\ hist.cmds[w] = <<Cmd("SUBSCRIBE", FALSE)>>

\* The callbacks registered with w so far, the initial nil included.
Registered(w) == {cbHist[w][i] : i \in 1 .. Len(cbHist[w])}

C15_CountZeroReturnsNil ==
    [][\A w \in Watchers :
         (LoopStep(w) /\ EventType(NextEvent(w)) = "Subscription") =>
            /\ hist.ncalls'[w] = hist.ncalls[w] /\ hist.nrecv'[w] = hist.nrecv[w]
            /\ IF NextEvent(w).n = 0
               THEN /\ pc'[w] = "Idle" /\ subRet'[w] = "nil"
                    /\ Len(hist.cmds'[w]) = 2
                    /\ hist.cmds'[w][2] = Cmd("UNSUBSCRIBE", TRUE)
               ELSE /\ pc'[w] = "Receiving" /\ subRet'[w] = subRet[w]
                    /\ hist.cmds' = hist.cmds
                    /\ inq'[connection[w]] = Tail(inq[connection[w]])
                    /\ subs' = subs]_vars

\* The loop has left w.subscribe() with nil on a count-zero event and has
\* subscribed again.
C15_Witness ==
    \E w \in Watchers : subRet[w] = "nil" /\ Subscribed(w)

\* The loop of w has left its receive loop and has issued its UNSUBSCRIBE on
\* a working connection.
LeftReceiving(w) ==
    /\ pc[w] = "Idle" /\ Len(hist.cmds[w]) = 2
    /\ hist.cmds[w][2] = Cmd("UNSUBSCRIBE", TRUE)

\* No Update() call is in progress.
Quiet == \A v \in Watchers : upc[v].need = 0

\* C16: when the broker stays reachable and the Update() calls come to an
\* end, a loop that has left its receive loop and unsubscribed gets back to
\* receiving, subscribed, and stays there.
C16_SettlesAfterExit ==
    \A w \in Watchers :
        (([]brokerUp) /\ (<>[]Quiet)) => [](LeftReceiving(w) => <>[]Subscribed(w))

\* The kinds of value read from a connection: replies to commands other
\* than (un)subscribe, and what the broker pushes to a subscriber.
CommandReplies == {"integer", "error"}
PubSubEvents == {"message", "subscribe", "unsubscribe"}

\* C17: reply isolation on the shared connection: every reply Update()
\* reads is a reply to a PUBLISH and every value the loop receives is a
\* message or a subscription event (or the error of a broken connection).
C17_ReplyIsolation ==
    [][\A w \in Watchers :
         /\ UpdateReadStep(w) => NextEvent(w).t \in CommandReplies \cup {"ioerr"}
         /\ LoopStep(w) => NextEvent(w).t \in PubSubEvents \cup {"ioerr"}]_vars

\* C18: the connection of a watcher is assigned once, by its construction:
\* no step changes it afterwards and no step after construction dials.
C18_ConnectionWriteOnce ==
    [][\A w \in Watchers :
         /\ connection[w] # Nil => connection'[w] = connection[w]
         /\ connection'[w] # connection[w] => result[w] = "none" /\ result'[w] = "ok"
         /\ hist.dials'[w] # hist.dials[w] => result[w] = "none"]_vars

\* The watcher holds the connection it dialed after that connection broke,
\* a receive and a SUBSCRIBE failed on it, an Update() returned and a
\* callback was registered.
C18_Witness ==
    \E w \in Watchers :
        /\ connection[w] = w /\ hist.dials[w] = 1
        /\ cstate[w] = "failed"
        /\ subRet[w] = "err" /\ hist.cmds[w] = <<Cmd("SUBSCRIBE", FALSE)>>
        /\ hist.updRes[w] # "none"
        /\ Len(cbHist[w]) > 1

\* The step is a SetUpdateCallback call on w.
SetStep(w) == cbHist'[w] # cbHist[w]

\* C19: SetUpdateCallback returns nil in every state and assigns the
\* callback field of its watcher and nothing else: connections, broker,
\* options, the loop's position and commands, Update() calls in progress
\* and the other watcher's callback stay as they are.
C19_SetUpdateCallbackFrame ==
    [][\A w \in Watchers :
         SetStep(w) =>
            /\ hist.setRes' = "ok"
            /\ Len(cbHist'[w]) = Len(cbHist[w]) + 1
            /\ \A v \in Watchers \ {w} : cbHist'[v] = cbHist[v]
            /\ UNCHANGED <<brokerVars, connVars, result, options, connection,
                           cbView, pc, subRet, upc, finalizerSet, dropped>>
            /\ hist.cmds' = hist.cmds /\ hist.subTried' = hist.subTried
            /\ hist.dials' = hist.dials]_vars

\* A callback was registered, with success, on a watcher whose connection
\* was broken.
C19_Witness ==
    hist.sets > 0 /\ hist.setRes = "ok" /\ hist.setBroken

====
